---- MODULE Spec2Model ----
(***************************************************************************)
(* cimple: a reflection-driven generator of plain data records ("mirror    *)
(* model", package cimple.cim) from the host object model (arcpy.cim), and *)
(* the conversions between host objects, mirror records and JSON text.     *)
(*                                                                         *)
(* Five state machines share the variables of this module:                 *)
(*   Spec     the conversion engine (conversion.py): a value is converted  *)
(*            by the six public conversion functions, one call per step;   *)
(*   GenSpec  the generation pass and its version guard (_build.py):       *)
(*            check_cimple and build_cim over the generated layout;        *)
(*   ModSpec  the loop of build_cim over the classes of one module, for    *)
(*            classes of any shape (build_class_attrs, merge, parse_imps); *)
(*   LoadSpec the while loop of load over a host namespace of any shape;   *)
(*   AttrSpec build_class_attrs, in its two revisions (_build.py and the   *)
(*            package __init__.py), applied to one attribute mapping.      *)
(***************************************************************************)
EXTENDS Integers, Sequences, FiniteSets, TLC

VARIABLES
    host,      \* the malformed record types present in the host model
    now,       \* the wall clock read by datetime.now: [sec, us]
    src,       \* conversion engine: the value the calls started from
    origin,    \* conversion engine: how src was made
    val,       \* conversion engine: the current value
    ops,       \* conversion engine: the calls applied to src, in order
    chk,       \* conversion engine: the last isinstance / issubclass result
    hostVer,   \* generation: the discovered host version (__arcpy_version__)
    fs,        \* generation: the generated layout, file name -> content
    out,       \* generation: what the last two build_cim runs wrote, for
               \* the host version they both saw
    last,      \* generation: what the last check_cimple call saw and did
    unit,      \* generation: the module build_cim is assembling
    walk,      \* generation: the namespace load walks and where it stands
    infer      \* generation: a build_class_attrs call and what it returned

vars == <<host, now, src, origin, val, ops, chk, hostVer, fs, out, last, unit, walk, infer>>
convVars == <<src, origin, val, ops, chk>>
genVars == <<hostVer, fs, out, last, unit, walk, infer>>

----------------------------------------------------------------------------
(* Bounds of the model *)

\* seconds the clock can reach
MaxSec == 1
\* sub-second units (microseconds) per second, minus one
MaxUs == 1
\* conversion calls applied to one input
MaxOps == 2
\* highest component of a version tuple
MaxVer == 1

----------------------------------------------------------------------------
(* Python values.  Every value is a record with a kind k and a payload     *)
(* whose field name is particular to the kind.  A text (the content of a   *)
(* str) is a sequence of atoms, "" being the empty sequence.               *)

VNone == [k |-> "none"]
VBool(b) == [k |-> "bool", b |-> b]
VInt(i) == [k |-> "int", i |-> i]
\* x is "nan", "inf" or a finite literal
VFloat(x) == [k |-> "float", x |-> x]
VStr(s) == [k |-> "str", s |-> s]
VDt(t) == [k |-> "dt", t |-> t]
VList(xs) == [k |-> "list", xs |-> xs]
VDict(d) == [k |-> "dict", d |-> d]
\* a member of an enumerated type of the host model
EnumMember(e, m) == [k |-> "enum", e |-> e, m |-> m]
\* a reference to a class (not an instance): path is the module it lives in
TypeRef(path, n) == [k |-> "type", path |-> path, n |-> n]
\* an instance of object(): compared by identity
Object(id) == [k |-> "object", id |-> id]
\* an exception instance held as a value
Exc(msg) == [k |-> "exc", msg |-> msg]
\* an instance of a record type of the host model or of the mirror model
Rec(side, cls, f) == [k |-> "rec", side |-> side, cls |-> cls, f |-> f]
\* arcpy.AsShape(obj, esri_json=True) and arcpy.SpatialReference(wkid)
Shape(d) == [k |-> "shape", d |-> d]
SpatialReference(w) == [k |-> "sr", w |-> w]
\* the outcome of a call that raised
Raise(e) == [k |-> "raise", e |-> e]

IsRaise(v) == v.k = "raise"
EmptyMap == [n \in {} |-> VNone]
Range(s) == {s[i] : i \in DOMAIN s}

\* the first raised outcome among the values of a mapping or sequence
FirstRaise(m) == CHOOSE v \in Range(m) : IsRaise(v)
AnyRaise(m) == \E v \in Range(m) : IsRaise(v)
\* a comprehension: the exception raised while its items were computed, or
\* the list or the mapping of the items
ListOf(xs) == IF AnyRaise(xs) THEN FirstRaise(xs) ELSE VList(xs)
DictOf(m) == IF AnyRaise(m) THEN FirstRaise(m) ELSE VDict(m)

----------------------------------------------------------------------------
(* Ordered mappings (Python dict): a sequence of <<key, value>> pairs in   *)
(* insertion order, each key once.                                         *)

Keys(od) == {od[i][1] : i \in DOMAIN od}
KeySeq(od) == [i \in DOMAIN od |-> od[i][1]]
Get(od, key, dflt) ==
    IF key \in Keys(od)
    THEN od[CHOOSE i \in DOMAIN od : od[i][1] = key][2]
    ELSE dflt
\* od[key] = v: in place when the key is there, appended otherwise
Put(od, key, v) ==
    IF key \in Keys(od)
    THEN [i \in DOMAIN od |-> IF od[i][1] = key THEN <<key, v>> ELSE od[i]]
    ELSE Append(od, <<key, v>>)
Pop(od, key) == SelectSeq(od, LAMBDA p : p[1] # key)
\* the mapping as a function of its keys
AsMap(od) == [n \in Keys(od) |-> Get(od, n, VNone)]

\* The order of str comparison (sorted) over the names of the model
LexOrder ==
    << "._CIMCommon", "._CIMCommon as cc", "Any", "CIMA", "CIMB", "CIMBar", "CIMEnums", "CIMExternal", "CIMFoo",
       "CIMKGTimeWindow", "CIMOtherBad", "CIMQux", "CIMTyped", "Dir",
       "ExtThing", "Extent", "Loader", "Polygon", "_private", "arcpy", "cim",
       "datetime", "inf",
       "literals", "math", "typing", "version_info" >>
\* sorted(xs) for a sequence of distinct names
Sorted(xs) == SelectSeq(LexOrder, LAMBDA n : n \in Range(xs))
\* the names that satisfy str.startswith('CIM')
StartsWithCIM(n) ==
    n \in {"CIMA", "CIMB", "CIMBar", "CIMEnums", "CIMExternal", "CIMFoo",
           "CIMKGTimeWindow", "CIMOtherBad", "CIMQux", "CIMTyped"}
\* The order in which a set of names is iterated: hash order, which differs
\* from run to run (seed): ascending or descending here
IterSet(S, seed) ==
    LET asc == SelectSeq(LexOrder, LAMBDA n : n \in S)
    IN IF seed = "asc" THEN asc
       ELSE [i \in DOMAIN asc |-> asc[Len(asc) + 1 - i]]
Seeds == {"asc", "desc"}

----------------------------------------------------------------------------
(* The host model (arcpy.cim), as the generator and the conversions see it *)

\* record types that cannot be default-constructed; the state variable host
\* says which of them the host model holds
Malformed == {"CIMKGTimeWindow", "CIMOtherBad"}
WellFormed == {"CIMBar", "CIMFoo", "CIMQux", "CIMTyped", "ExtThing"}
HostClasses(h) == WellFormed \cup h
HostEnums == {"Dir"}
\* enum._value2member_map_: value -> member, in definition order
EnumMembers(e) == << <<"North", 0>>, <<"South", 1>> >>

\* cls.__module__.split('.')[-1]
modname(cls) ==
    CASE cls \in {"CIMFoo", "CIMQux", "CIMTyped"} -> "CIMA"
      [] cls \in {"CIMBar", "CIMKGTimeWindow", "CIMOtherBad"} -> "CIMB"
      [] cls = "ExtThing" -> "CIMExternal"
      [] cls = "Loader" -> "cim"
      [] cls = "Dir" -> "CIMEnums"

\* cls.__doc__ as the host declares it ("" when there is none)
HostDoc(cls) == IF cls = "CIMFoo" THEN "Foo doc" ELSE ""

\* The attribute mapping of a default-constructed host instance, in
\* insertion order.  t is the clock, oid the identity of its object().
HostInit(cls, t, oid) ==
    CASE cls \in {"CIMQux", "Loader", "_private"} -> << <<"count", VInt(1)>> >>
      [] cls = "CIMBar" ->
            << <<"count", VInt(1)>>, <<"link", VStr(<<"CIMQux">>)>> >>
      [] cls = "CIMTyped" -> << <<"type", VInt(7)>>, <<"b", VInt(2)>> >>
      [] cls = "ExtThing" -> << >>
      [] cls = "CIMFoo" ->
            << <<"count", VInt(3)>>,
               <<"label", VStr(<< >>)>>,
               <<"ratio", VFloat("nan")>>,
               <<"big", VFloat("inf")>>,
               <<"x", VFloat("1.5")>>,
               <<"flag", VBool(TRUE)>>,
               <<"dir", EnumMember("Dir", "South")>>,
               <<"items", VList(<< >>)>>,
               <<"props", VDict(EmptyMap)>>,
               <<"when", VDt(t)>>,
               <<"ref", VStr(<<"CIMBar">>)>>,
               <<"same", VStr(<<"CIMQux">>)>>,
               <<"ext", TypeRef("CIMExternal", "ExtThing")>>,
               <<"shape", TypeRef("arcobjects", "Polygon")>>,
               <<"extent", TypeRef("arcobjects", "Extent")>>,
               <<"opaque", Object(oid)>>,
               <<"nothing", VNone>> >>

\* cls() of the host model: a zero-argument constructor that takes no field
\* values; a malformed type has a required argument and raises
HostNew(h, cls, kwargs, t, oid) ==
    IF cls \in Malformed \/ DOMAIN kwargs # {}
    THEN Raise("TypeError")
    ELSE Rec("host", cls, AsMap(HostInit(cls, t, oid)))

\* dir(mod) of a module of the host model: sorted attribute names, each with
\* what getattr returns.  The root re-exports every type of its submodules
\* and defines one type of its own (Loader).
HostDir(h, mod) ==
    LET all ==
          CASE mod = "cim" ->
                 << [n |-> "CIMA", kind |-> "module"],
                    [n |-> "CIMB", kind |-> "module"],
                    [n |-> "CIMBar", kind |-> "class"],
                    [n |-> "CIMEnums", kind |-> "module"],
                    [n |-> "CIMExternal", kind |-> "module"],
                    [n |-> "CIMFoo", kind |-> "class"],
                    [n |-> "CIMKGTimeWindow", kind |-> "class"],
                    [n |-> "CIMOtherBad", kind |-> "class"],
                    [n |-> "CIMQux", kind |-> "class"],
                    [n |-> "CIMTyped", kind |-> "class"],
                    [n |-> "Dir", kind |-> "enum"],
                    [n |-> "ExtThing", kind |-> "class"],
                    [n |-> "Loader", kind |-> "class"],
                    [n |-> "_private", kind |-> "class"],
                    [n |-> "version_info", kind |-> "other"] >>
            [] mod = "CIMA" ->
                 << [n |-> "CIMFoo", kind |-> "class"],
                    [n |-> "CIMQux", kind |-> "class"],
                    [n |-> "CIMTyped", kind |-> "class"] >>
            [] mod = "CIMB" ->
                 << [n |-> "CIMBar", kind |-> "class"],
                    [n |-> "CIMKGTimeWindow", kind |-> "class"],
                    [n |-> "CIMOtherBad", kind |-> "class"] >>
            [] mod = "CIMEnums" -> << [n |-> "Dir", kind |-> "enum"] >>
            [] mod = "CIMExternal" ->
                 << [n |-> "ExtThing", kind |-> "class"] >>
    IN SelectSeq(all, LAMBDA a : a.n \notin Malformed \/ a.n \in h)

\* attr.startswith('_')
IsPrivate(n) == n = "_private"

----------------------------------------------------------------------------
(* Schema discovery and type inference (_build.py)                         *)

\* __version__ of the generator
GenVersion == <<0, 0, 1>>

\* match obj: the first case that applies.  An enumerated type is an
\* instance of EnumType and, like every class, an instance of type.
classify_type_first(a) ==
    IF a.kind = "module" THEN "module"
    ELSE IF a.kind \in {"enum", "class"} THEN "class"
    ELSE IF a.kind = "enum" THEN "enum"
    ELSE "other"

classify(a) ==
    IF a.kind = "module" THEN "module"
    ELSE IF a.kind = "enum" THEN "enum"
    ELSE IF a.kind \in {"enum", "class"} THEN "class"
    ELSE "other"

Names(attrs, kind) ==
    LET sel == SelectSeq(attrs, LAMBDA a : classify(a) = kind)
    IN [i \in DOMAIN sel |-> sel[i].n]

\* the body of the while loop for the module popped: the public attributes
\* of dir(mod), each appended to the list its case names
visit(attrs, rest, enums, classes) ==
    [modules |-> rest \o Names(SelectSeq(attrs, LAMBDA a : ~IsPrivate(a.n)), "module"),
     enums |-> enums \o Names(SelectSeq(attrs, LAMBDA a : ~IsPrivate(a.n)), "enum"),
     classes |-> classes \o Names(SelectSeq(attrs, LAMBDA a : ~IsPrivate(a.n)), "class")]

RECURSIVE load_loop(_, _, _, _)
\* the while loop of load: pop the last module, classify its public
\* attributes in dir() order
load_loop(h, modules, enums, classes) ==
    IF modules = << >>
    THEN [enums |-> enums, classes |-> classes]
    ELSE LET v == visit(HostDir(h, modules[Len(modules)]),
                        SubSeq(modules, 1, Len(modules) - 1), enums, classes)
         IN load_loop(h, v.modules, v.enums, v.classes)

load(h) == load_loop(h, <<"cim">>, << >>, << >>)

RECURSIVE Unique(_)
\* the keys of a dict filled from a sequence: first occurrences, in order
Unique(xs) ==
    IF xs = << >> THEN << >>
    ELSE LET r == Unique(SubSeq(xs, 1, Len(xs) - 1))
         IN IF xs[Len(xs)] \in Range(r) THEN r ELSE Append(r, xs[Len(xs)])

\* parse_enum: member -> (name, value)
parse_enum(e) == EnumMembers(e)

\* parse_cim with the fallback set for every type that cannot be constructed
parse_cim_any(h, cls, t) ==
    LET inst == HostNew(h, cls, EmptyMap, t, 0)
    IN IF IsRaise(inst)
       THEN [doc |-> <<"Error parsing CIM: ", inst.e>>,
             attrs |-> << <<"minTime", VInt(0)>>, <<"maxTime", VInt(0)>> >>]
       ELSE [doc |-> IF HostDoc(cls) = "" THEN << >> ELSE <<HostDoc(cls)>>,
             attrs |-> HostInit(cls, t, 0)]

\* parse_cim: the attribute mapping of cls() and the documentation of cls
parse_cim(h, cls, t) ==
    LET inst == HostNew(h, cls, EmptyMap, t, 0)
    IN IF IsRaise(inst)
       THEN [doc |-> <<"Error parsing CIM: ", inst.e>>,
             attrs |-> IF cls = "CIMKGTimeWindow"
                       THEN << <<"minTime", VInt(0)>>, <<"maxTime", VInt(0)>> >>
                       ELSE << <<"ERROR", Exc(inst.e)>> >>]
       ELSE [doc |-> IF HostDoc(cls) = "" THEN << >> ELSE <<HostDoc(cls)>>,
             attrs |-> HostInit(cls, t, 0)]

\* the geometry kinds recognised by the end of repr(val)
GeometryNames ==
    {"Polygon", "Extent", "Polyline", "Geometry", "SpatialReference",
     "Multipoint", "Point"}

NoImport == << >>
Factory(via, cls) == [d |-> "factory", via |-> via, cls |-> cls]
Literal(v) == [d |-> "lit", v |-> v]

\* One pass of the if/elif chain of build_class_attrs: the declared type,
\* the default and the import the attribute adds
attr_type(sample, mods, c) ==
    IF sample.k = "str" /\ Len(sample.s) = 1 /\ sample.s[1] \in mods
    THEN IF modname(sample.s[1]) # modname(c)
         THEN [ty |-> <<"cc.", sample.s[1]>>, dflt |-> Factory("cc", sample.s[1]),
               imp |-> <<modname(sample.s[1]), sample.s[1]>>]
         ELSE [ty |-> <<sample.s[1]>>, dflt |-> Factory("", sample.s[1]),
               imp |-> NoImport]
    ELSE IF sample.k = "enum"
    THEN [ty |-> <<sample.e>>, dflt |-> Literal(VStr(<<sample.m>>)),
          imp |-> <<"literals", sample.e>>]
    ELSE IF sample.k = "list"
    THEN [ty |-> <<"list[Any]">>, dflt |-> [d |-> "list"],
          imp |-> <<"typing", "Any">>]
    ELSE IF sample.k = "dict"
    THEN [ty |-> <<"dict[str, Any]">>, dflt |-> [d |-> "dict"],
          imp |-> <<"typing", "Any">>]
    ELSE IF sample.k = "str"
    THEN [ty |-> <<"str">>,
          dflt |-> IF sample.s = << >> THEN Literal(VStr(<< >>))
                   ELSE [d |-> "expr", s |-> sample.s],
          imp |-> NoImport]
    ELSE IF sample.k = "none"
    THEN [ty |-> <<"Any">>, dflt |-> Literal(VNone), imp |-> NoImport]
    ELSE IF sample.k = "dt"
    THEN [ty |-> <<"datetime">>, dflt |-> [d |-> "now"],
          imp |-> <<"datetime", "datetime">>]
    ELSE IF sample.k = "bool"
    THEN [ty |-> <<"bool">>, dflt |-> Literal(sample), imp |-> NoImport]
    ELSE IF sample.k = "int"
    THEN [ty |-> <<"int">>, dflt |-> Literal(sample), imp |-> NoImport]
    ELSE IF sample.k = "float" /\ sample.x = "nan"
    THEN [ty |-> <<"float | None">>, dflt |-> Literal(VNone), imp |-> NoImport]
    ELSE IF sample.k = "float" /\ sample.x = "inf"
    THEN [ty |-> <<"float">>, dflt |-> Literal(VFloat("inf")),
          imp |-> <<"math", "inf">>]
    ELSE IF sample.k = "float"
    THEN [ty |-> <<"float">>, dflt |-> Literal(sample), imp |-> NoImport]
    ELSE IF sample.k = "type" /\ sample.n \in GeometryNames
    THEN [ty |-> <<sample.n, " | None">>, dflt |-> Literal(VNone),
          imp |-> <<"arcpy", sample.n>>]
    ELSE IF sample.k = "type" /\ sample.path = "CIMExternal"
    THEN [ty |-> <<sample.n>>, dflt |-> Factory("", sample.n),
          imp |-> <<"CIMExternal", sample.n>>]
    ELSE IF sample.k = "object"
    THEN [ty |-> <<"Any">>, dflt |-> Literal(VNone), imp |-> NoImport]
    ELSE [ty |-> <<"Any">>, dflt |-> Literal(VNone),
          imp |-> <<"typing", "Any">>]

RECURSIVE attrs_loop(_, _, _, _, _)
attrs_loop(attrs, mods, c, class_string, imports) ==
    IF attrs = << >>
    THEN [class_string |-> class_string, imports |-> imports]
    ELSE LET name == Head(attrs)[1]
             a == attr_type(Head(attrs)[2], mods, c)
             added == IF a.imp = NoImport THEN imports
                      ELSE Put(imports, a.imp[1],
                               Get(imports, a.imp[1], {}) \cup {a.imp[2]})
         IN attrs_loop(Tail(attrs), mods, c,
                       Append(class_string,
                              [name |-> name, ty |-> a.ty, dflt |-> a.dflt]),
                       added)

\* build_class_attrs: the field declarations of c, in attribute order, and
\* its import requirements (module -> set of names)
build_class_attrs(attrs, mods, c) == attrs_loop(attrs, mods, c, << >>, << >>)

\* One pass of the if/elif chain of build_class_attrs as the package
\* __init__.py defines it: a record type is named without the alias, NaN is
\* declared as float = nan with nan imported from math, an external type is
\* constructed in place; every other branch is the one of _build.py
init_attr_type(sample, mods, c) ==
    IF sample.k = "str" /\ Len(sample.s) = 1 /\ sample.s[1] \in mods
    THEN [ty |-> <<sample.s[1]>>, dflt |-> Factory("", sample.s[1]),
          imp |-> IF modname(sample.s[1]) # modname(c)
                  THEN <<modname(sample.s[1]), sample.s[1]>>
                  ELSE NoImport]
    ELSE IF sample.k = "float" /\ sample.x = "nan"
    THEN [ty |-> <<"float">>, dflt |-> Literal(sample), imp |-> <<"math", "nan">>]
    ELSE IF sample.k = "type" /\ sample.n \notin GeometryNames
                              /\ sample.path = "CIMExternal"
    THEN [ty |-> <<sample.n>>, dflt |-> [d |-> "call", cls |-> sample.n],
          imp |-> <<"CIMExternal", sample.n>>]
    ELSE attr_type(sample, mods, c)

RECURSIVE init_build_class_attrs(_, _, _, _, _)
\* build_class_attrs of the package __init__.py; class_string and imports
\* are the declarations and the requirements collected so far
init_build_class_attrs(attrs, mods, c, class_string, imports) ==
    IF attrs = << >>
    THEN [class_string |-> class_string, imports |-> imports]
    ELSE init_build_class_attrs(Tail(attrs), mods, c,
            Append(class_string,
                   [name |-> Head(attrs)[1],
                    ty |-> init_attr_type(Head(attrs)[2], mods, c).ty,
                    dflt |-> init_attr_type(Head(attrs)[2], mods, c).dflt]),
            IF init_attr_type(Head(attrs)[2], mods, c).imp = NoImport
            THEN imports
            ELSE Put(imports, init_attr_type(Head(attrs)[2], mods, c).imp[1],
                     Get(imports, init_attr_type(Head(attrs)[2], mods, c).imp[1], {})
                     \cup {init_attr_type(Head(attrs)[2], mods, c).imp[2]}))

----------------------------------------------------------------------------
(* Import plans and rendering (_build.py)                                  *)

RECURSIVE PutUnion(_, _)
\* for k in trg: root[k] = trg[k] | root.get(k, set())
PutUnion(root, trg) ==
    IF trg = << >> THEN root
    ELSE PutUnion(Put(root, Head(trg)[1],
                      Head(trg)[2] \cup Get(root, Head(trg)[1], {})),
                  Tail(trg))

import_order == <<"typing", "math", "datetime", "arcpy", "CIM*", "literals">>

RECURSIVE sort_root(_, _, _)
\* the loop of merge over import_order; keys is the key list taken before it
sort_root(order, root, keys) ==
    IF order = << >> THEN << >>
    ELSE LET mod == Head(order)
             cim_mods == Sorted(SelectSeq(KeySeq(root), StartsWithCIM))
             taken ==
                IF mod \in keys
                THEN << <<mod, Get(root, mod, {})>> >>
                ELSE IF mod = "CIM*"
                THEN [i \in DOMAIN cim_mods |->
                        <<cim_mods[i], Get(root, cim_mods[i], {})>>]
                ELSE << >>
             left == SelectSeq(root, LAMBDA p : p[1] \notin Keys(taken))
         IN taken \o sort_root(Tail(order), left, keys)

\* merge: the union of two import plans, in the fixed output order
merge(root, trg) ==
    LET merged == PutUnion([i \in DOMAIN root |->
                     <<root[i][1], root[i][2] \cup Get(trg, root[i][1], {})>>],
                           trg)
    IN sort_root(import_order, merged, Keys(merged))

\* parse_imps: one import statement per module of the plan, its names
\* sorted, then the shared alias import when the plan carries it.  seed is
\* the iteration order of the sets.
parse_imps(imps, seed) ==
    LET has_cim == Get(imps, "._CIMCommon", {}) # {}
        rest == Pop(imps, "._CIMCommon")
    IN [i \in DOMAIN rest |->
          [c |-> "import",
           rel |-> StartsWithCIM(rest[i][1]) \/ rest[i][1] = "literals",
           mod |-> rest[i][1],
           names |-> Sorted(IterSet(rest[i][2], seed))]]
       \o (IF has_cim THEN <<[c |-> "alias"]>> ELSE << >>)

\* format_doc: 'NO DOC' for a missing doc string (the whitespace clean-up of
\* the text is not modelled)
format_doc(doc) == IF doc = << >> THEN <<"NO DOC">> ELSE doc

\* get_doc_link: from the module name and the type name
get_doc_link(c) == <<"docs/v3/", modname(c), ".md#", c, "-1">>

base_imports == <<[c |-> "future"], [c |-> "dataclasses"], [c |-> "base"]>>
format_all(expose_names) == [c |-> "all", names |-> expose_names]

\* build_dataclass: the declaration of one mirror record
build_dataclass(cls, doc, attrs) ==
    [c |-> "class", name |-> cls, link |-> get_doc_link(cls),
     doc |-> format_doc(doc), attrs |-> attrs]

\* build_literals: one block per enumerated type that has members
build_literals(enums) ==
    LET kept == SelectSeq(enums, LAMBDA e : parse_enum(e) # << >>)
    IN [i \in DOMAIN kept |->
          [c |-> "literal", name |-> kept[i],
           lit |-> [j \in DOMAIN parse_enum(kept[i]) |-> parse_enum(kept[i])[j][1]],
           map |-> parse_enum(kept[i])]]

\* build_meta_class and build_base_class: the text of _base.py
build_base == <<[c |-> "CIMMeta"], [c |-> "CIMBase"]>>

----------------------------------------------------------------------------
(* build_cim: the generated layout, file name -> content.  A content is a  *)
(* sequence of blocks in the order they are written.                       *)

RECURSIVE class_loop(_, _, _, _, _, _)
\* the loop of build_cim over the classes of one module: the merged import
\* plan, the record declarations and the export list
class_loop(h, t, mod, classes, mods, acc) ==
    IF classes = << >> THEN acc
    ELSE LET c == Head(classes)
         IN IF modname(c) # mod
            THEN class_loop(h, t, mod, Tail(classes), mods, acc)
            ELSE LET parsed == parse_cim(h, c, t)
                     built == build_class_attrs(parsed.attrs, mods, c)
                     class_imps == SelectSeq(built.imports, LAMBDA p : p[1] # mod)
                 IN class_loop(h, t, mod, Tail(classes), mods,
                       [imports |-> merge(acc.imports, class_imps),
                        mod_classes |-> Append(acc.mod_classes,
                            build_dataclass(c, parsed.doc, built.class_string)),
                        all_ |-> Append(acc.all_, c)])

\* "import from the aliased _CIMCommon": every sibling module of the plan
\* is dropped and the alias entry added once, at the end
collapse(imports) ==
    LET sib == {m \in Keys(imports) : StartsWithCIM(m) /\ m # "CIMExternal"}
    IN IF sib = {} THEN imports
       ELSE Append(SelectSeq(imports, LAMBDA p : p[1] \notin sib),
                   <<"._CIMCommon", {"._CIMCommon as cc"}>>)

\* the classes load finds, each once, in discovery order
unique_classes(h) == Unique(load(h).classes)
unique_enums(h) == Unique(load(h).enums)
\* the originating modules of the classes
mod_names(h) == {modname(c) : c \in Range(unique_classes(h))}
\* the modules build_cim writes: the root module itself is skipped
mod_files(h) == mod_names(h) \ {"cim"}
\* the record types the written modules declare
exported(h) == {c \in Range(unique_classes(h)) : modname(c) # "cim"}

\* mod_files[mod]: the import plan, the declarations and the export list
mod_entry(h, t, mod) ==
    LET acc == class_loop(h, t, mod, unique_classes(h),
                          Range(unique_classes(h)),
                          [imports |-> << >>, mod_classes |-> << >>, all_ |-> << >>])
    IN [acc EXCEPT !.imports = collapse(acc.imports)]

\* the text of one generated module
module_file(h, t, mod, seed) ==
    LET e == mod_entry(h, t, mod)
    IN base_imports \o parse_imps(e.imports, seed)
       \o <<format_all(e.all_)>> \o e.mod_classes

\* the aggregator listing the modules in the order they were generated
aggregate_unsorted(written) == written

\* sorted(mod_files): the modules an aggregator file lists
aggregate(written) == Sorted(written)

\* The files build_cim writes.  order is the order in which the set of
\* module names is iterated, seed the one of the sets of imported names, hv
\* the host version and gv the version of the generator.
build_cim(h, t, order, seed, hv, gv) ==
    LET written == SelectSeq(order, LAMBDA m : m # "cim")
        listed == aggregate(written)
        stars == [i \in DOMAIN listed |-> [c |-> "star", mod |-> listed[i]]]
    IN [n \in Range(written) |-> module_file(h, t, n, seed)]
       @@ [n \in {"literals"} |->
             <<[c |-> "typing"]>> \o build_literals(unique_enums(h))]
       @@ [n \in {"_base"} |-> build_base]
       @@ [n \in {"_CIMCommon"} |-> stars]
       @@ [n \in {"__init__"} |->
             stars \o <<[c |-> "stamp", cim_version |-> hv, version |-> gv]>>]

----------------------------------------------------------------------------
(* The mirror model (package cimple.cim) as the generated layout declares  *)
(* it, and the two namespaces the conversions look names up in.            *)

\* the declarations of the mirror records of every host model: the fields of
\* each in order, with name, type and default
MirrorDecl ==
    [h \in SUBSET Malformed |->
        [cls \in HostClasses(h) |->
            build_class_attrs(parse_cim(h, cls, [sec |-> 0, us |-> 0]).attrs,
                              Range(unique_classes(h)), cls).class_string]]
MirrorFields(h, cls) == MirrorDecl[h][cls]
FieldNames(h, cls) == {MirrorFields(h, cls)[i].name : i \in 1 .. Len(MirrorFields(h, cls))}

\* getattr(cim, name, None) on the mirror package: a record type exported
\* through __all__, a submodule or the stamp (not callable), or nothing
MirrorLookup(h, name) ==
    IF name \in exported(h) THEN "class"
    ELSE IF name \in mod_files(h)
              \cup {"literals", "_base", "_CIMCommon", "__cim_version__", "__version__"}
    THEN "other"
    ELSE "none"

\* getattr(arcpy_cim, name, None) on the host package
HostLookup(h, name) ==
    LET hit == SelectSeq(HostDir(h, "cim"), LAMBDA a : a.n = name)
    IN IF hit = << >> THEN "none" ELSE hit[1].kind

RECURSIVE MirrorNew(_, _, _, _)
\* the value field n takes in cls(**kwargs), evaluated at clock t
FieldValue(h, decl, kwargs, n, t) ==
    IF n \in DOMAIN kwargs THEN kwargs[n]
    ELSE CASE decl.dflt.d = "lit" -> decl.dflt.v
           [] decl.dflt.d = "list" -> VList(<< >>)
           [] decl.dflt.d = "dict" -> VDict(EmptyMap)
           [] decl.dflt.d = "now" -> VDt(t)
           [] decl.dflt.d = "factory" -> MirrorNew(h, decl.dflt.cls, EmptyMap, t)
           [] decl.dflt.d = "expr" -> Raise("NameError")
\* the instance, unless a keyword is unknown or a default raised
Instance(cls, names, kwargs, f) ==
    IF ~(DOMAIN kwargs \subseteq names) THEN Raise("TypeError")
    ELSE IF AnyRaise(f) THEN FirstRaise(f)
    ELSE Rec("mirror", cls, f)
\* the dataclass __init__ over the declarations decl
MirrorInit(h, cls, decl, kwargs, t) ==
    Instance(cls, {decl[i].name : i \in DOMAIN decl}, kwargs,
             [n \in {decl[i].name : i \in DOMAIN decl} |->
                FieldValue(h, decl[CHOOSE i \in DOMAIN decl : decl[i].name = n],
                           kwargs, n, t)])
\* cls(**kwargs) of a mirror record: an unknown keyword raises, a field not
\* given takes its declared default, evaluated at clock t
MirrorNew(h, cls, kwargs, t) == MirrorInit(h, cls, MirrorFields(h, cls), kwargs, t)

\* o.__class__.__name__
ClassName(o) ==
    CASE o.k = "rec" -> o.cls
      [] o.k = "enum" -> o.e
      [] o.k = "none" -> "NoneType"
      [] o.k = "dt" -> "datetime"
      [] o.k = "exc" -> o.msg
      [] o.k = "shape" -> "Polygon"
      [] o.k = "sr" -> "SpatialReference"
      [] OTHER -> o.k

----------------------------------------------------------------------------
(* Mirror <-> Host (conversion.py)                                         *)

\* cim_obj.__dict__.update(conv) on the instance cim_obj
Patched(cim_obj, conv) ==
    IF IsRaise(cim_obj) THEN cim_obj
    ELSE IF AnyRaise(conv) THEN FirstRaise(conv)
    ELSE Rec("host", cim_obj.cls, conv @@ cim_obj.f)

\* what cimple_to_cim does with o once the host package yielded found
HostPatch(h, found, o, conv, t, oid) ==
    IF found \in {"none", "enum"} THEN o
    ELSE IF found # "class" THEN Raise("TypeError")
    ELSE Patched(HostNew(h, ClassName(o), EmptyMap, t, oid), conv)

RECURSIVE cimple_to_cim(_, _, _, _)
\* cimple_to_cim: the host type of the same name is constructed without
\* arguments and its attribute mapping updated with the converted fields;
\* a value without a host type (or naming an enumerated type) is returned
cimple_to_cim(h, o, t, oid) ==
    IF o.k = "list"
    THEN ListOf([i \in DOMAIN o.xs |-> cimple_to_cim(h, o.xs[i], t, oid)])
    ELSE IF o.k = "rec"
    THEN HostPatch(h, HostLookup(h, ClassName(o)), o,
                   [n \in DOMAIN o.f |-> cimple_to_cim(h, o.f[n], t, oid)], t, oid)
    ELSE HostPatch(h, HostLookup(h, ClassName(o)), o, EmptyMap, t, oid)

\* what cim_to_cimple does with o once the mirror package yielded found
MirrorCall(h, found, o, conv, t) ==
    IF found = "none" THEN o
    ELSE IF AnyRaise(conv) THEN FirstRaise(conv)
    ELSE IF found # "class" THEN Raise("TypeError")
    ELSE MirrorNew(h, ClassName(o), conv, t)

RECURSIVE cim_to_cimple(_, _, _)
\* cim_to_cimple: the mirror type of the same name is constructed from the
\* converted entries of the attribute mapping; other values are returned
cim_to_cimple(h, o, t) ==
    IF o.k = "list"
    THEN ListOf([i \in DOMAIN o.xs |-> cim_to_cimple(h, o.xs[i], t)])
    ELSE IF o.k = "rec"
    THEN MirrorCall(h, MirrorLookup(h, ClassName(o)), o,
                    [n \in DOMAIN o.f |-> cim_to_cimple(h, o.f[n], t)], t)
    ELSE MirrorCall(h, MirrorLookup(h, ClassName(o)), o, EmptyMap, t)

----------------------------------------------------------------------------
(* JSON text, as the tree of its tokens                                    *)

JNull == [k |-> "jnull"]
JBool(b) == [k |-> "jbool", jb |-> b]
JInt(i) == [k |-> "jint", ji |-> i]
JFloat(x) == [k |-> "jfloat", jx |-> x]
\* the bare tokens NaN and Infinity that json writes for the float sentinels
JNaN == [k |-> "jNaN"]
JInfinity == [k |-> "jInfinity"]
JString(s) == [k |-> "jstring", js |-> s]
JArray(xs) == [k |-> "jarray", ja |-> xs]
JObject(m) == [k |-> "jobject", jo |-> m]
IsJson(v) ==
    v.k \in {"jnull", "jbool", "jint", "jfloat", "jNaN", "jInfinity",
             "jstring", "jarray", "jobject"}

Digits == <<"0", "1", "2", "3", "4", "5", "6", "7", "8", "9">>
Digit(n) == Digits[n + 1]
DigitValue(a) == (CHOOSE i \in DOMAIN Digits : Digits[i] = a) - 1

\* datetime.isoformat: the fraction is written only when it is not zero
isoformat(t) ==
    <<"T", Digit(t.sec)>> \o (IF t.us = 0 THEN << >> ELSE <<".", Digit(t.us)>>)
\* whether datetime.fromisoformat accepts the text
IsIso(s) ==
    /\ Len(s) \in {2, 4}
    /\ s[1] = "T"
    /\ s[2] \in Range(Digits)
    /\ Len(s) = 4 => (s[3] = "." /\ s[4] \in Range(Digits))
fromisoformat(s) ==
    [sec |-> DigitValue(s[2]), us |-> IF Len(s) = 4 THEN DigitValue(s[4]) ELSE 0]

\* an encoder that writes the fields of a record without its type name
cimpleJSONEncoder_default_untyped(o) ==
    IF o.k = "rec" /\ o.side = "mirror" THEN VDict(o.f)
    ELSE IF o.k = "dt" THEN VStr(isoformat(o.t))
    ELSE Raise("TypeError")

\* cimpleJSONEncoder.default: called for a value json cannot write itself
cimpleJSONEncoder_default(o) ==
    IF o.k = "rec" /\ o.side = "mirror"
    THEN VDict([n \in {"type"} |-> VStr(<<o.cls>>)] @@ o.f)
    ELSE IF o.k = "dt" THEN VStr(isoformat(o.t))
    ELSE Raise("TypeError")

\* super().default(c), unless computing c raised
EncodeMirror(c) == IF IsRaise(c) THEN c ELSE cimpleJSONEncoder_default(c)

\* cimJSONEncoder.default
cimJSONEncoder_default(h, o, t) == EncodeMirror(cim_to_cimple(h, o, t))

\* the array or the object of the items written, unless writing one raised
ArrayOf(xs) == IF AnyRaise(xs) THEN FirstRaise(xs) ELSE JArray(xs)
ObjectOf(m) == IF AnyRaise(m) THEN FirstRaise(m) ELSE JObject(m)

RECURSIVE dumps(_, _, _, _)
\* json writes what default returned, unless default raised
Redump(h, d, enc, t) == IF IsRaise(d) THEN d ELSE dumps(h, d, enc, t)

\* json.dumps(o, cls=enc): the values json knows are written by json, the
\* float sentinels included; everything else goes through default
dumps(h, o, enc, t) ==
    CASE o.k = "none" -> JNull
      [] o.k = "bool" -> JBool(o.b)
      [] o.k = "int" -> JInt(o.i)
      [] o.k = "float" ->
            IF o.x = "nan" THEN JNaN
            ELSE IF o.x = "inf" THEN JInfinity ELSE JFloat(o.x)
      [] o.k = "str" -> JString(o.s)
      [] o.k = "list" -> ArrayOf([i \in DOMAIN o.xs |-> dumps(h, o.xs[i], enc, t)])
      [] o.k = "dict" -> ObjectOf([n \in DOMAIN o.d |-> dumps(h, o.d[n], enc, t)])
      [] OTHER ->
            Redump(h, IF enc = "cim" THEN cimJSONEncoder_default(h, o, t)
                      ELSE cimpleJSONEncoder_default(o), enc, t)

\* str(_type) as an attribute name
TypeName(v) == IF v.k = "str" /\ Len(v.s) = 1 THEN v.s[1] ELSE "None"

\* cimple_obj(**kwargs) for what getattr(self._cim, str(_type), None) found
Construct(h, dec, found, name, kwargs, t) ==
    IF AnyRaise(kwargs) THEN FirstRaise(kwargs)
    ELSE IF found # "class" THEN Raise("TypeError")
    ELSE IF dec = "cim" THEN HostNew(h, name, kwargs, t, 1)
    ELSE MirrorNew(h, name, kwargs, t)

\* the branches of the hook for a mapping obj whose type entry is popped
HookDict(h, dec, found, name, obj, kwargs, t) ==
    IF found # "none" THEN Construct(h, dec, found, name, kwargs, t)
    ELSE IF "spatialReference" \in DOMAIN obj THEN Shape(obj)
    ELSE IF "wkid" \in DOMAIN obj THEN SpatialReference(obj["wkid"])
    ELSE VDict(obj)

RECURSIVE hook(_, _, _, _)
RECURSIVE cimpleJSONDecoder_hook(_, _, _, _)
\* cimpleJSONDecoder.hook; dec names the decoder class of self, whose _cim
\* is the mirror package ("cimple") or the host package ("cim")
cimpleJSONDecoder_hook(h, o, dec, t) ==
    IF o.k = "dict"
    THEN HookDict(h, dec,
                  IF dec = "cim"
                  THEN HostLookup(h, TypeName(IF "type" \in DOMAIN o.d
                                              THEN o.d["type"] ELSE VNone))
                  ELSE MirrorLookup(h, TypeName(IF "type" \in DOMAIN o.d
                                                THEN o.d["type"] ELSE VNone)),
                  TypeName(IF "type" \in DOMAIN o.d THEN o.d["type"] ELSE VNone),
                  [n \in DOMAIN o.d \ {"type"} |-> o.d[n]],
                  [n \in DOMAIN o.d \ {"type"} |-> hook(h, o.d[n], dec, t)], t)
    ELSE IF o.k = "list"
    THEN ListOf([i \in DOMAIN o.xs |-> hook(h, o.xs[i], dec, t)])
    ELSE IF o.k = "str"
    THEN IF o.s = <<"nan">> THEN VNone
         ELSE IF o.s = <<"inf">> THEN VFloat("inf")
         ELSE IF IsIso(o.s) THEN VDt(fromisoformat(o.s))
         ELSE o
    ELSE o

\* cimple_to_cim(r), unless the inherited hook raised
ToHost(h, r, t) == IF IsRaise(r) THEN r ELSE cimple_to_cim(h, r, t, 1)

\* self.hook: cimJSONDecoder.hook converts what the inherited hook returns
hook(h, o, dec, t) ==
    IF dec = "cim" THEN ToHost(h, cimpleJSONDecoder_hook(h, o, dec, t), t)
    ELSE cimpleJSONDecoder_hook(h, o, dec, t)

\* object_hook(m), unless reading an entry of m raised
Hooked(h, m, dec, t) == IF IsRaise(m) THEN m ELSE hook(h, m, dec, t)

RECURSIVE loads(_, _, _, _)
\* json.loads(text, cls=dec): object_hook is called with every JSON object,
\* innermost first, and with nothing else
loads(h, j, dec, t) ==
    CASE j.k = "jnull" -> VNone
      [] j.k = "jbool" -> VBool(j.jb)
      [] j.k = "jint" -> VInt(j.ji)
      [] j.k = "jfloat" -> VFloat(j.jx)
      [] j.k = "jNaN" -> VFloat("nan")
      [] j.k = "jInfinity" -> VFloat("inf")
      [] j.k = "jstring" -> VStr(j.js)
      [] j.k = "jarray" -> ListOf([i \in DOMAIN j.ja |-> loads(h, j.ja[i], dec, t)])
      [] j.k = "jobject" ->
            Hooked(h, DictOf([n \in DOMAIN j.jo |-> loads(h, j.jo[n], dec, t)]), dec, t)

cimple_to_json(h, o, t) == dumps(h, o, "cimple", t)
json_to_cimple(h, j, t) == loads(h, j, "cimple", t)
cim_to_json(h, o, t) == dumps(h, o, "cim", t)
json_to_cim(h, j, t) == loads(h, j, "cim", t)

----------------------------------------------------------------------------
(* The structural base type (the text build_meta_class writes to _base.py) *)

MirrorTypes(h) == exported(h) \cup {"CIMBase"}

\* getattr(cls, '__dataclass_fields__', None): CIMBase is no dataclass
dataclass_fields(h, cls) ==
    IF cls = "CIMBase" THEN [has |-> FALSE, keys |-> {}]
    ELSE [has |-> TRUE, keys |-> FieldNames(h, cls)]

\* CIMMeta.__subclasscheck__(cls, subclass) = issubclass(subclass, cls)
subclasscheck(h, cls, subclass) ==
    IF ~dataclass_fields(h, cls).has \/ ~dataclass_fields(h, subclass).has
    THEN FALSE
    ELSE dataclass_fields(h, cls).keys \subseteq dataclass_fields(h, subclass).keys

\* isinstance(o, cls): true at once for the exact type, CIMMeta.__instancecheck__
\* otherwise
instancecheck(h, cls, o) == o.cls = cls \/ subclasscheck(h, cls, o.cls)

----------------------------------------------------------------------------
(* The comparison of the round-trip tests (tests/test_conversion.py)       *)

\* norm: what a field value is compared as
norm(h, o) ==
    IF o.k = "enum" THEN VStr(<<o.m>>)
    ELSE IF o.k = "rec" /\ o.side = "mirror" /\ instancecheck(h, "CIMBase", o)
    THEN VStr(<<o.cls>>)
    ELSE IF o.k = "type" /\ o.path = "CIMExternal" THEN VStr(<<o.n>>)
    ELSE IF o.k = "type" /\ o.path = "arcobjects" THEN VNone
    ELSE IF o.k = "object" THEN VNone
    ELSE IF o.k = "float" /\ o.x = "nan" THEN VNone
    ELSE IF o.k = "dt" THEN VInt(o.t.sec)
    ELSE o

\* get_invalid_keys: the fields of a that b lacks or holds another value for
get_invalid_keys(h, a, b) ==
    {n \in DOMAIN a.f : n \notin DOMAIN b.f \/ norm(h, a.f[n]) # norm(h, b.f[n])}

----------------------------------------------------------------------------
(* The conversion engine as a state machine: an input is made at some time *)
(* of the clock, then converted by at most MaxOps calls.                   *)

Clock == [sec : 0 .. MaxSec, us : 0 .. MaxUs]
NoCheck == [op |-> "none"]
NoLayout == [exists |-> FALSE, files |-> EmptyMap]
NoCall == [called |-> FALSE]

\* mirror records constructed with one field given
MirrorCustom ==
    { [cls |-> "CIMFoo", kwargs |-> [ratio |-> VFloat("nan")]],
      [cls |-> "CIMQux", kwargs |-> [count |-> VFloat("inf")]],
      [cls |-> "CIMQux", kwargs |-> [count |-> VFloat("nan")]],
      [cls |-> "CIMTyped", kwargs |-> [type |-> VInt(9)]],
      [cls |-> "CIMBar", kwargs |-> [count |-> VInt(2)]] }

\* JSON texts handed to the decoders
JsonInputs ==
    { JString(<<"nan">>), JString(<<"inf">>), JString(<<"North">>),
      JArray(<<JString(<<"nan">>)>>),
      JObject([a |-> JString(<<"inf">>)]),
      JObject([type |-> JString(<<"CIMQux">>), count |-> JString(<<"nan">>)]),
      JObject([type |-> JString(<<"CIMQux">>), count |-> JString(<<"inf">>)]),
      JObject([type |-> JString(<<"CIMQux">>),
               count |-> JArray(<<JString(<<"nan">>), JString(<<"T", "1", ".", "1">>),
                                  JString(<<"North">>)>>)]),
      JObject([type |-> JString(<<"CIMQux">>), count |-> JInt(5)]),
      JObject([type |-> JString(<<"CIMQux">>)]),
      JObject([type |-> JString(<<"CIMBar">>),
               link |-> JObject([type |-> JString(<<"CIMQux">>), count |-> JInt(4)])]),
      JObject([type |-> JString(<<"Dir">>)]),
      JObject([type |-> JString(<<"Unknown">>), a |-> JInt(1)]),
      JObject([wkid |-> JInt(3)]),
      JObject([type |-> JString(<<"CIMA">>), wkid |-> JInt(3)]),
      JObject([spatialReference |-> JObject([wkid |-> JInt(3)]), x |-> JInt(1)]),
      JObject([type |-> JString(<<"CIMQux">>),
               spatialReference |-> JObject([wkid |-> JInt(3)])]) }

\* load is not running
NoWalk ==
    [on |-> FALSE, dir |-> << >>, modules |-> << >>, enums |-> << >>,
     classes |-> << >>, visited |-> << >>]

\* no module is being assembled
NoUnit ==
    [mod |-> "none", n |-> 0, root |-> << >>, trg |-> << >>, imports |-> << >>,
     cc |-> FALSE, written |-> FALSE, text |-> << >>]

GenIdle ==
    /\ hostVer = <<0, 0, 0>>
    /\ fs = NoLayout
    /\ out = << >>
    /\ last = NoCall
    /\ unit = NoUnit
    /\ walk = NoWalk
    /\ infer = [on |-> FALSE]

Init ==
    /\ host = Malformed
    /\ now = [sec |-> 0, us |-> 0]
    /\ origin = "none"
    /\ src = VNone
    /\ val = VNone
    /\ ops = << >>
    /\ chk = NoCheck
    /\ GenIdle

\* the clock advances
Tick ==
    /\ ops = << >>
    /\ chk = NoCheck
    /\ \/ now.us < MaxUs /\ now' = [now EXCEPT !.us = now.us + 1]
       \/ now.us = MaxUs /\ now.sec < MaxSec /\ now' = [sec |-> now.sec + 1, us |-> 0]
    /\ UNCHANGED <<host, convVars, genVars>>

Start(o, how) ==
    /\ origin = "none"
    /\ chk = NoCheck
    /\ ~IsRaise(o)
    /\ src' = o
    /\ val' = o
    /\ origin' = how
    /\ UNCHANGED <<host, now, ops, chk, genVars>>

\* cls() of a mirror record
NewMirror == \E c \in HostClasses(host) : Start(MirrorNew(host, c, EmptyMap, now), "mirror_default")
\* cls() of a host record
NewHost == \E c \in HostClasses(host) : Start(HostNew(host, c, EmptyMap, now, 0), "host_default")
\* cls(field=value) of a mirror record
NewMirrorWith == \E m \in MirrorCustom : Start(MirrorNew(host, m.cls, m.kwargs, now), "mirror_custom")
\* a JSON text received
ReadJson == \E j \in JsonInputs : Start(j, "json")

\* records whose type has no counterpart on the other side: an instance of a
\* host type that load skips (its name starts with an underscore), and a
\* mirror record declared by a layout generated from a host model that still
\* had the type
Orphans ==
    { Rec("host", "_private", [count |-> VInt(1)]),
      Rec("mirror", "CIMGone", [count |-> VInt(1)]) }
\* a record without counterpart is at hand
NewOrphan == \E o \in Orphans : Start(o, "orphan")

Call(name, result) ==
    /\ origin # "none"
    /\ chk = NoCheck
    /\ Len(ops) < MaxOps
    /\ ~IsRaise(val)
    /\ val' = result
    /\ ops' = Append(ops, name)
    /\ UNCHANGED <<host, now, src, origin, chk, genVars>>

CimpleToJson == ~IsJson(val) /\ Call("cimple_to_json", cimple_to_json(host, val, now))
JsonToCimple == IsJson(val) /\ Call("json_to_cimple", json_to_cimple(host, val, now))
CimpleToCim == ~IsJson(val) /\ Call("cimple_to_cim", cimple_to_cim(host, val, now, 1))
CimToCimple == ~IsJson(val) /\ Call("cim_to_cimple", cim_to_cimple(host, val, now))
CimToJson == ~IsJson(val) /\ Call("cim_to_json", cim_to_json(host, val, now))
JsonToCim == IsJson(val) /\ Call("json_to_cim", json_to_cim(host, val, now))

\* isinstance(val, cls) for a mirror record val
IsInstance ==
    /\ origin \in {"mirror_default", "mirror_custom"}
    /\ ops = << >>
    /\ chk = NoCheck
    /\ \E c \in MirrorTypes(host) :
          chk' = [op |-> "isinstance", cls |-> c, sub |-> val.cls,
                  res |-> instancecheck(host, c, val)]
    /\ UNCHANGED <<host, now, src, origin, val, ops, genVars>>

\* issubclass(b, a) for two types of the mirror model
IsSubclass ==
    /\ origin = "none"
    /\ chk = NoCheck
    /\ \E a, b \in MirrorTypes(host) :
          chk' = [op |-> "issubclass", cls |-> a, sub |-> b,
                  res |-> subclasscheck(host, a, b)]
    /\ UNCHANGED <<host, now, src, origin, val, ops, genVars>>

Next ==
    \/ Tick
    \/ NewMirror
    \/ NewHost
    \/ NewMirrorWith
    \/ ReadJson
    \/ NewOrphan
    \/ CimpleToJson
    \/ JsonToCimple
    \/ CimpleToCim
    \/ CimToCimple
    \/ CimToJson
    \/ JsonToCim
    \/ IsInstance
    \/ IsSubclass

Spec == Init /\ [][Next]_vars

----------------------------------------------------------------------------
(* Properties of the conversion engine                                     *)

\* the two calls first, second were made on the input, or the first raised
RoundTrip(first, second) ==
    \/ ops = <<first, second>>
    \/ ops = <<first>> /\ IsRaise(val)

\* val is a record of the side and type of src with the fields of src
SameRecord ==
    /\ val.k = "rec"
    /\ val.side = src.side
    /\ val.cls = src.cls
    /\ DOMAIN val.f = DOMAIN src.f
    /\ get_invalid_keys(host, src, val) = {}

\* C1: JSON round trip.  For every default-constructed mirror record r,
\* json_to_cimple(cimple_to_json(r)) is a mirror record of the type of r that
\* equals r field by field (NaN compared as null, timestamps by the second).
C1_JsonRoundTrip ==
    (origin = "mirror_default" /\ RoundTrip("cimple_to_json", "json_to_cimple"))
        => SameRecord

\* C1 witness: the round trip of a record with a timestamp born off the
\* whole second, a nested record and an infinite field has been made
C1_Witness ==
    /\ origin = "mirror_default"
    /\ ops = <<"cimple_to_json", "json_to_cimple">>
    /\ src.cls = "CIMFoo"
    /\ src.f["when"] = VDt([sec |-> 1, us |-> 1])
    /\ val.k = "rec"

\* C2: Mirror/Host round trip.  For every default-constructed record x,
\* converting to the other representation and back gives a record of the
\* type of x whose fields equal those of x one by one (enum members by name,
\* external references by type name, the host default sentinel as null).
C2_MirrorHostRoundTrip ==
    (\/ origin = "mirror_default" /\ RoundTrip("cimple_to_cim", "cim_to_cimple")
     \/ origin = "host_default" /\ RoundTrip("cim_to_cimple", "cimple_to_cim"))
        => SameRecord

\* C3: sentinel encoding.  A field of a mirror record holding NaN is written
\* by cimple_to_json as the JSON string "nan", one holding infinity as the
\* JSON string "inf".
C3_SentinelEncoding ==
    (origin \in {"mirror_default", "mirror_custom"} /\ ops = <<"cimple_to_json">>)
        => \A n \in DOMAIN src.f :
              /\ src.f[n] = VFloat("nan")
                    => (val.k = "jobject" /\ val.jo[n] = JString(<<"nan">>))
              /\ src.f[n] = VFloat("inf")
                    => (val.k = "jobject" /\ val.jo[n] = JString(<<"inf">>))

\* what C4 says a string decodes to
DecodedString(s) ==
    IF s = <<"nan">> THEN VNone
    ELSE IF s = <<"inf">> THEN VFloat("inf")
    ELSE IF IsIso(s) THEN VDt(fromisoformat(s))
    ELSE VStr(s)

\* C4: sentinel decoding.  In JSON to Mirror decoding a string "nan" decodes
\* to null, "inf" to infinity, any other string to a timestamp when it
\* parses as ISO-8601 and to itself otherwise: for a text that is a string,
\* and for the string entries of a mapping that names no type.
C4_SentinelDecoding ==
    (origin = "json" /\ ops = <<"json_to_cimple">>)
        => /\ src.k = "jstring" => val = DecodedString(src.js)
           /\ (src.k = "jobject" /\ val.k = "dict")
                 => \A n \in DOMAIN val.d :
                       src.jo[n].k = "jstring" => val.d[n] = DecodedString(src.jo[n].js)

\* C5: wire format.  Encoding a mirror record gives a mapping holding every
\* declared field with the value of that field, and a "type" entry with the
\* name of the record type; no declared field is lost or replaced by it.
C5_WireFormat ==
    (origin \in {"mirror_default", "mirror_custom"} /\ ops = <<"cimple_to_json">>)
        => /\ val.k = "jobject"
           /\ DOMAIN val.jo = DOMAIN src.f \cup {"type"}
           /\ "type" \notin DOMAIN src.f => val.jo["type"] = JString(<<src.cls>>)
           /\ \A n \in DOMAIN src.f : val.jo[n] = cimple_to_json(host, src.f[n], now)

\* json_to_cim as the composition of the two other conversions
ComposedDecode(j) ==
    LET m == json_to_cimple(host, j, now)
    IN IF IsRaise(m) THEN m ELSE cimple_to_cim(host, m, now, 1)

\* cim_to_json as the composition of the two other conversions
ComposedEncode(o) ==
    LET m == cim_to_cimple(host, o, now)
    IN IF IsRaise(m) THEN m ELSE cimple_to_json(host, m, now)

\* C6: Host/JSON conversion is the composition of the other two.  For every
\* JSON text s, json_to_cim(s) = cimple_to_cim(json_to_cimple(s)); for every
\* host object x, cim_to_json(x) = cimple_to_json(cim_to_cimple(x)).
C6_Composition ==
    /\ (origin = "json" /\ ops = <<"json_to_cim">>) => val = ComposedDecode(src)
    /\ (origin = "host_default" /\ ops = <<"cim_to_json">>) => val = ComposedEncode(src)

\* C10: structural base type.  isinstance(r, CIMBase) is true for every
\* instance r of every generated record type, and for two record types A
\* and B issubclass(B, A) is true exactly when the field names of A are
\* among those of B.
C10_StructuralBase ==
    /\ (chk.op = "isinstance" /\ chk.cls = "CIMBase") => chk.res
    /\ (chk.op = "issubclass" /\ chk.cls # "CIMBase" /\ chk.sub # "CIMBase")
          => (chk.res <=> FieldNames(host, chk.cls) \subseteq FieldNames(host, chk.sub))

\* C11: conversion lookup failure.  When the counterpart type of a record
\* is not found during Mirror to Host or Host to Mirror conversion, the call
\* fails with an error; it does not return the unconverted value.
C11_LookupFailure ==
    (/\ origin = "orphan"
     /\ \/ src.side = "mirror" /\ ops = <<"cimple_to_cim">>
        \/ src.side = "host" /\ ops = <<"cim_to_cimple">>)
        => IsRaise(val)

\* the mapping object_hook is called with for the JSON object j: its entries
\* as json decoded them
Decoded(j) == [n \in DOMAIN j.jo |-> loads(host, j.jo[n], "cimple", now)]
\* the name the type entry of a decoded mapping gives, "None" without one
TypeOf(m) == TypeName(IF "type" \in DOMAIN m THEN m["type"] ELSE VNone)
\* the entries of a decoded mapping other than type
Remaining(m) == [n \in DOMAIN m \ {"type"} |-> m[n]]
\* the type entry names a record type of the mirror model
NamesRecord(m) == TypeOf(m) \in exported(host)
\* json_to_cimple was applied to a JSON object whose entries decode
DecodedObject ==
    /\ origin = "json"
    /\ ops = <<"json_to_cimple">>
    /\ src.k = "jobject"
    /\ ~AnyRaise(Decoded(src))

\* C13: dispatch of the JSON to Mirror decoding, first match wins.  A mapping
\* whose type entry names a mirror record type is rebuilt as that record
\* from its remaining entries, each decoded recursively; otherwise a mapping
\* with a spatialReference entry is rebuilt as a geometry; otherwise a
\* mapping with a wkid entry is rebuilt as a spatial reference.  A mapping
\* with both a known type and a spatialReference entry goes to the record.
C13_Dispatch ==
    DecodedObject =>
        LET m == Decoded(src)
        IN IF NamesRecord(m)
           THEN val = MirrorNew(host, TypeOf(m),
                                [n \in DOMAIN Remaining(m) |->
                                    hook(host, m[n], "cimple", now)], now)
           ELSE IF "spatialReference" \in DOMAIN m
           THEN val.k = "shape"
           ELSE "wkid" \in DOMAIN m => val = SpatialReference(m["wkid"])

\* C17: a mapping that matches none of the reconstruction rules (no known
\* record type, no spatialReference entry, no wkid entry) is returned with
\* exactly the keys and values of the input mapping, its type entry included.
C17_Unmatched ==
    (/\ DecodedObject
     /\ ~NamesRecord(Decoded(src))
     /\ "spatialReference" \notin DOMAIN src.jo
     /\ "wkid" \notin DOMAIN src.jo)
        => val = VDict(Decoded(src))

----------------------------------------------------------------------------
(* Generation and the version guard as a state machine: the host version   *)
(* changes, the layout is damaged or removed, check_cimple and build_cim   *)
(* run.                                                                    *)

\* the versions of the host, (major, minor, build): (0,0,0) when the version
\* cannot be determined
Versions == {<<0, 0, 0>>} \cup {<<3, a, b>> : a, b \in 0 .. MaxVer}
\* the generator versions an existing layout may have been written by
GenVersions == {<<0, 0, 0>>, GenVersion, <<0, 0, 2>>}

\* a < b for two version tuples
TupleLess(a, b) ==
    \/ a[1] < b[1]
    \/ a[1] = b[1] /\ a[2] < b[2]
    \/ a[1] = b[1] /\ a[2] = b[2] /\ a[3] < b[3]

\* from .cim import __cim_version__, __version__: the import of the package
\* runs its __init__, which must be there and hold the stamp
ReadStamp(files) ==
    IF "__init__" \in DOMAIN files
       /\ \E i \in DOMAIN files["__init__"] : files["__init__"][i].c = "stamp"
    THEN LET st == files["__init__"][CHOOSE i \in DOMAIN files["__init__"] :
                                        files["__init__"][i].c = "stamp"]
         IN [ok |-> TRUE, cim_version |-> st.cim_version, version |-> st.version]
    ELSE [ok |-> FALSE, cim_version |-> << >>, version |-> << >>]

\* a guard that takes any difference of the host versions for staleness
stale_on_mismatch(st, hv, gv) == st.cim_version # hv

\* the condition under which check_cimple updates a layout it could read
stale(st, hv, gv) ==
    TupleLess(st.cim_version, hv) \/ TupleLess(st.version, gv)

\* whether check_cimple runs build_cim
check_cimple(layout, hv, gv) ==
    IF ~layout.exists THEN TRUE
    ELSE LET st == ReadStamp(layout.files)
         IN IF st.ok THEN stale(st, hv, gv) ELSE TRUE

\* mkdir(exist_ok) and write_text of every generated file: files of the
\* layout that are not written stay
WriteLayout(layout, files) == [exists |-> TRUE, files |-> files @@ layout.files]

\* the record of a build_cim run: the host version it saw, the iteration
\* order of its sets, and the files it wrote.  out holds the last two runs
\* made since the host was installed.
Built(hv, seed, files) == [hv |-> hv, seed |-> seed, files |-> files]
Remember(run) == IF out = << >> THEN <<run>> ELSE <<out[Len(out)], run>>

GenInit ==
    /\ host \in SUBSET Malformed
    /\ now = [sec |-> 0, us |-> 0]
    /\ origin = "none"
    /\ src = VNone
    /\ val = VNone
    /\ ops = << >>
    /\ chk = NoCheck
    /\ hostVer \in Versions
    /\ fs \in {NoLayout}
           \cup {WriteLayout(NoLayout,
                            build_cim(host, now, IterSet(mod_names(host), "asc"),
                                      "asc", hv, gv)) :
                    hv \in Versions, gv \in GenVersions}
    /\ out = << >>
    /\ last = NoCall
    /\ unit = NoUnit
    /\ walk = NoWalk
    /\ infer = [on |-> FALSE]

\* build_cim()
BuildCim ==
    \E seed \in Seeds :
       LET files == build_cim(host, now, IterSet(mod_names(host), seed), seed,
                              hostVer, GenVersion)
       IN /\ fs' = WriteLayout(fs, files)
          /\ out' = Remember(Built(hostVer, seed, files))
          /\ last' = NoCall
          /\ UNCHANGED <<host, now, convVars, unit, walk, infer, hostVer>>

\* check_cimple(root)
CheckCimple ==
    \E seed \in Seeds :
       LET st == ReadStamp(fs.files)
           run == check_cimple(fs, hostVer, GenVersion)
           files == build_cim(host, now, IterSet(mod_names(host), seed), seed,
                              hostVer, GenVersion)
       IN /\ last' = [called |-> TRUE, existed |-> fs.exists,
                      readable |-> fs.exists /\ st.ok,
                      cim_version |-> st.cim_version, version |-> st.version,
                      hv |-> hostVer, built |-> run]
          /\ IF run
             THEN /\ fs' = WriteLayout(fs, files)
                  /\ out' = Remember(Built(hostVer, seed, files))
             ELSE UNCHANGED <<fs, out>>
          /\ UNCHANGED <<host, now, convVars, unit, walk, infer, hostVer>>

\* another version of the host is installed
InstallHost ==
    /\ \E v \in Versions \ {hostVer} : hostVer' = v
    /\ out' = << >>
    /\ last' = NoCall
    /\ UNCHANGED <<host, now, convVars, unit, walk, infer, fs>>

\* the generated layout is deleted
RemoveLayout ==
    /\ fs.exists
    /\ fs' = NoLayout
    /\ last' = NoCall
    /\ UNCHANGED <<host, now, convVars, unit, walk, infer, hostVer, out>>

\* the file holding the stamp is deleted
RemoveStamp ==
    /\ "__init__" \in DOMAIN fs.files
    /\ fs' = [fs EXCEPT !.files = [n \in DOMAIN fs.files \ {"__init__"} |-> fs.files[n]]]
    /\ last' = NoCall
    /\ UNCHANGED <<host, now, convVars, unit, walk, infer, hostVer, out>>

\* the file holding the stamp is overwritten with text that does not load
GarbleStamp ==
    /\ "__init__" \in DOMAIN fs.files
    /\ ReadStamp(fs.files).ok
    /\ fs' = [fs EXCEPT !.files["__init__"] = <<[c |-> "garbage"]>>]
    /\ last' = NoCall
    /\ UNCHANGED <<host, now, convVars, unit, walk, infer, hostVer, out>>

GenNext ==
    \/ BuildCim
    \/ CheckCimple
    \/ InstallHost
    \/ RemoveLayout
    \/ RemoveStamp
    \/ GarbleStamp

GenSpec == GenInit /\ [][GenNext]_vars

----------------------------------------------------------------------------
(* Properties of the generation and of the version guard                   *)

\* version a is lower than version b: they differ first at a component
\* where a is smaller
Older(a, b) ==
    \E i \in 1 .. 3 : a[i] < b[i] /\ \A j \in 1 .. (i - 1) : a[j] = b[j]

\* C7 as stated: check_cimple runs the generation when the layout is absent,
\* when the stamp is missing or unreadable, and when the persisted host
\* version does not match the host version found; when the stamp is readable
\* and matches it does not regenerate.
C7_VersionGuard ==
    last.called =>
        /\ ~last.existed => last.built
        /\ (last.existed /\ ~last.readable) => last.built
        /\ (last.readable /\ last.cim_version # last.hv) => last.built
        /\ (last.readable /\ last.cim_version = last.hv) => ~last.built

\* C7 amended: check_cimple runs the generation exactly when the layout is
\* absent, or the stamp is missing or unreadable, or the persisted host
\* version is lower than the host version found, or the persisted generator
\* version is lower than the version of the generator.
C7_VersionGuardAmended ==
    last.called =>
        (last.built <=>
            \/ ~last.existed
            \/ ~last.readable
            \/ Older(last.cim_version, last.hv)
            \/ Older(last.version, GenVersion))

\* C7 witness: check_cimple found a readable stamp of a host version higher
\* than the one installed, written by this generator, and did not build
C7_Witness ==
    /\ last.called
    /\ last.readable
    /\ Older(last.hv, last.cim_version)
    /\ last.version = GenVersion
    /\ ~last.built

\* C8: idempotent regeneration.  Two runs of build_cim against the same
\* host model write the same files with identical content, whatever the
\* order in which the sets of module names and of imported names iterate.
C8_Idempotent ==
    Len(out) = 2 =>
        /\ DOMAIN out[1].files = DOMAIN out[2].files
        /\ \A n \in DOMAIN out[1].files : out[1].files[n] = out[2].files[n]

\* C8 witness: two runs were made whose sets iterated in different orders,
\* over modules that import more than one name from one place
C8_Witness ==
    /\ Len(out) = 2
    /\ out[1].seed # out[2].seed
    /\ \E b \in Range(out[2].files["CIMA"]) : b.c = "import" /\ Len(b.names) > 1

\* the declaration of record type cls in the generated files
ClassBlock(files, cls) ==
    LET text == files[modname(cls)]
    IN text[CHOOSE i \in DOMAIN text : text[i].c = "class" /\ text[i].name = cls]
\* the fields of a declaration as name -> default, and in their order
FieldDefaults(block) ==
    [n \in {block.attrs[i].name : i \in DOMAIN block.attrs} |->
        (block.attrs[CHOOSE i \in DOMAIN block.attrs : block.attrs[i].name = n]).dflt]
FieldOrder(block) == [i \in DOMAIN block.attrs |-> block.attrs[i].name]
\* the field names cls gets from a host model that holds no malformed type
FieldsWithout(cls) ==
    LET decl == build_class_attrs(parse_cim({}, cls, now).attrs,
                                  Range(unique_classes({})), cls).class_string
    IN [i \in DOMAIN decl |-> decl[i].name]
\* the instantiation error is the documentation of the declaration
DocIsError(block) ==
    /\ Len(block.doc) = 2
    /\ block.doc[1] = "Error parsing CIM: "
    /\ block.doc[2] = "TypeError"
\* the run completed: every file is written, the stamp last
Completed(files) ==
    /\ DOMAIN files = mod_files(host) \cup {"literals", "_base", "_CIMCommon", "__init__"}
    /\ files["__init__"][Len(files["__init__"])].c = "stamp"
Unaffected(files) ==
    \A c \in WellFormed : FieldOrder(ClassBlock(files, c)) = FieldsWithout(c)
FallbackFields == [n \in {"minTime", "maxTime"} |-> Literal(VInt(0))]

\* C9 as stated: when exactly one discovered record type cannot be
\* default-constructed, generation completes, that type gets the fallback
\* fields minTime and maxTime, both 0, with the instantiation error as its
\* documentation, and every other type gets the fields it would get without
\* the malformed type.
C9_Resilience ==
    (out # << >> /\ Cardinality(host) = 1) =>
        LET files == out[Len(out)].files
            bad == ClassBlock(files, CHOOSE c \in host : TRUE)
        IN /\ Completed(files)
           /\ FieldDefaults(bad) = FallbackFields
           /\ DocIsError(bad)
           /\ Unaffected(files)

\* C9 amended: when exactly one discovered record type cannot be
\* default-constructed, generation completes and the instantiation error is
\* the documentation of that type; the type gets the fallback fields minTime
\* and maxTime, both 0, when it is CIMKGTimeWindow, and the single field
\* ERROR with default None otherwise; every other type gets the fields it
\* would get without the malformed type.
C9_ResilienceAmended ==
    (out # << >> /\ Cardinality(host) = 1) =>
        LET files == out[Len(out)].files
            bad == ClassBlock(files, CHOOSE c \in host : TRUE)
        IN /\ Completed(files)
           /\ FieldDefaults(bad) =
                 IF host = {"CIMKGTimeWindow"} THEN FallbackFields
                 ELSE [n \in {"ERROR"} |-> Literal(VNone)]
           /\ DocIsError(bad)
           /\ Unaffected(files)

\* C9 witness: a run has written the layout of a host model whose one
\* malformed type is not CIMKGTimeWindow
C9_Witness ==
    /\ out # << >>
    /\ host = {"CIMOtherBad"}
    /\ "ERROR" \in Range(FieldOrder(ClassBlock(fs.files, "CIMOtherBad")))

----------------------------------------------------------------------------
(* ModSpec: the loop of build_cim over the classes of one module.  The     *)
(* attribute mapping of each class is any short mapping of the samples     *)
(* below, so that every branch of the import bookkeeping is taken.         *)

\* classes one module declares
MaxClasses == 2

\* the attribute values a default-constructed host instance can hold
Samples ==
    { VStr(<<"CIMBar">>), VStr(<<"CIMQux">>), VStr(<<"ExtThing">>),
      VStr(<<"Loader">>), EnumMember("Dir", "South"), VList(<< >>),
      VFloat("inf"), VDt([sec |-> 0, us |-> 0]),
      TypeRef("arcobjects", "Polygon"), TypeRef("CIMExternal", "ExtThing"),
      VInt(1) }
\* the attribute mappings of the classes: one or two attributes
SampleAttrs ==
    { << <<"a", x>> >> : x \in Samples }
    \cup { << <<"a", p[1]>>, <<"b", p[2]>> >> :
              p \in {q \in Samples \X Samples : q[1] # q[2]} }

\* the classes of one originating module, in discovery order
classes_of(h, mod) == SelectSeq(unique_classes(h), LAMBDA c : modname(c) = mod)

ModInit ==
    /\ host = Malformed
    /\ now = [sec |-> 0, us |-> 0]
    /\ origin = "none"
    /\ src = VNone
    /\ val = VNone
    /\ ops = << >>
    /\ chk = NoCheck
    /\ GenIdle

\* for mod in mod_names: the root module is skipped, a fresh import plan
\* is opened for any other
BeginModule ==
    /\ unit = NoUnit
    /\ \E mod \in mod_names(host) :
          /\ mod # "cim"
          /\ unit' = [NoUnit EXCEPT !.mod = mod]
    /\ UNCHANGED <<host, now, convVars, hostVer, fs, out, last, walk, infer>>

\* one iteration of the loop over the classes of the module: the fields and
\* the import requirements of the class, those of other modules merged into
\* the plan; cc records that a field is declared through the shared alias
BuildClass ==
    /\ unit.mod # "none"
    /\ ~unit.written
    /\ unit.n < MaxClasses
    /\ unit.n < Len(classes_of(host, unit.mod))
    /\ \E attrs \in SampleAttrs :
          LET c == classes_of(host, unit.mod)[unit.n + 1]
              built == build_class_attrs(attrs, Range(unique_classes(host)), c)
              trg == SelectSeq(built.imports, LAMBDA p : p[1] # unit.mod)
              cc == \E i \in DOMAIN built.class_string :
                        built.class_string[i].ty[1] = "cc."
          IN unit' = [unit EXCEPT !.n = unit.n + 1,
                                  !.root = unit.imports,
                                  !.trg = trg,
                                  !.imports = merge(unit.imports, trg),
                                  !.cc = unit.cc \/ cc]
    /\ UNCHANGED <<host, now, convVars, hostVer, fs, out, last, walk, infer>>

\* the end of the loop: the sibling modules are collapsed behind the alias
\* and the import plan is rendered
WriteModule ==
    /\ unit.n > 0
    /\ ~unit.written
    /\ \E seed \in Seeds :
          unit' = [unit EXCEPT !.written = TRUE,
                               !.text = parse_imps(collapse(unit.imports), seed)]
    /\ UNCHANGED <<host, now, convVars, hostVer, fs, out, last, walk, infer>>

ModNext ==
    \/ BeginModule
    \/ BuildClass
    \/ WriteModule

ModSpec == ModInit /\ [][ModNext]_vars

----------------------------------------------------------------------------
(* Properties of the import plan                                           *)

\* the place of a module in the output order: the four fixed-priority
\* modules, then the record-type-origin modules, then the literals module
PlanRank(m) ==
    CASE m = "typing" -> 1
      [] m = "math" -> 2
      [] m = "datetime" -> 3
      [] m = "arcpy" -> 4
      [] m = "literals" -> 6
      [] OTHER -> 5
\* lexicographic order of the record-type-origin modules
OriginRank(m) ==
    CASE m = "CIMA" -> 1
      [] m = "CIMB" -> 2
      [] m = "CIMExternal" -> 3
      [] OTHER -> 0
InPlanOrder(ks) ==
    \A i, j \in DOMAIN ks :
        i < j => \/ PlanRank(ks[i]) < PlanRank(ks[j])
                 \/ /\ PlanRank(ks[i]) = 5
                    /\ PlanRank(ks[j]) = 5
                    /\ OriginRank(ks[i]) < OriginRank(ks[j])
\* the modules of the import statements of a rendered plan
Rendered(text) ==
    LET imps == SelectSeq(text, LAMBDA b : b.c = "import")
    IN [i \in DOMAIN imps |-> imps[i].mod]
UnionOf(root, trg, merged) ==
    /\ Keys(merged) = Keys(root) \cup Keys(trg)
    /\ \A k \in Keys(root) \cup Keys(trg) :
          Get(merged, k, {}) = Get(root, k, {}) \cup Get(trg, k, {})

\* C12: import plan order.  After the import requirements of a class are
\* merged into the plan of its module, the plan (and its rendering) lists
\* typing, math, datetime, arcpy, then the record-type-origin modules in
\* lexicographic order, then literals; and the merged plan holds, for every
\* module name of either input, the union of the type names of both.
C12_ImportPlan ==
    unit.n > 0 =>
        /\ InPlanOrder(KeySeq(unit.imports))
        /\ unit.written => InPlanOrder(Rendered(unit.text))
        /\ UnionOf(unit.root, unit.trg, unit.imports)

\* the alias imports of a rendered plan
AliasImports(text) == {i \in DOMAIN text : text[i].c = "alias"}

\* C15: alias collapse.  The import plan of a generated module imports no
\* sibling mirrored module (a CIM-prefixed origin module other than
\* CIMExternal) by name; and whenever a field of the module refers to a
\* record type of another originating module through the shared alias
\* (cc.<Type>), the plan holds exactly one shared alias import.
C15_AliasCollapse ==
    unit.written =>
        /\ Range(Rendered(unit.text)) \cap {"CIMA", "CIMB", "CIMEnums"} = {}
        /\ unit.cc => Cardinality(AliasImports(unit.text)) = 1

----------------------------------------------------------------------------
(* LoadSpec: the while loop of load, one iteration per step, over host     *)
(* namespaces that are strict hierarchies: every sub-namespace is an       *)
(* attribute of exactly one namespace and the root is above all of them.   *)

SubNamespaces == {"CIMA", "CIMB", "CIMEnums"}
\* the namespace a sub-namespace is an attribute of
Parents ==
    { p \in [SubNamespaces -> SubNamespaces \cup {"cim"}] :
        \A c \in SubNamespaces :
            \/ p[c] = "cim"
            \/ p[c] # c /\ p[p[c]] = "cim"
            \/ p[c] # c /\ p[p[c]] \notin {c, p[c]} /\ p[p[p[c]]] = "cim" }

\* dir() of every namespace of the hierarchy p, sorted; the enumerated type
\* Dir lives in the namespace e, the root holds a private sub-namespace
TreeDir(p, e) ==
    [n \in SubNamespaces \cup {"cim", "_private"} |->
        LET held == {c \in SubNamespaces : p[c] = n}
                    \cup (IF n = "cim" THEN {"_private", "version_info"} ELSE {})
                    \cup (IF n = "CIMA" THEN {"CIMFoo"} ELSE {})
                    \cup (IF n = "CIMB" THEN {"CIMBar"} ELSE {})
                    \cup (IF n = "_private" THEN {"Loader"} ELSE {})
                    \cup (IF n = e THEN {"Dir"} ELSE {})
            names == SelectSeq(LexOrder, LAMBDA x : x \in held)
        IN [i \in DOMAIN names |->
              [n |-> names[i],
               kind |-> CASE names[i] \in SubNamespaces \cup {"_private"} -> "module"
                          [] names[i] = "Dir" -> "enum"
                          [] names[i] = "version_info" -> "other"
                          [] OTHER -> "class"]]]

LoadInit ==
    /\ host = Malformed
    /\ now = [sec |-> 0, us |-> 0]
    /\ origin = "none"
    /\ src = VNone
    /\ val = VNone
    /\ ops = << >>
    /\ chk = NoCheck
    /\ hostVer = <<0, 0, 0>>
    /\ fs = NoLayout
    /\ out = << >>
    /\ last = NoCall
    /\ unit = NoUnit
    /\ infer = [on |-> FALSE]
    /\ walk \in { [NoWalk EXCEPT !.on = TRUE, !.dir = TreeDir(p, e),
                                 !.modules = <<"cim">>] :
                    p \in Parents, e \in SubNamespaces \cup {"cim"} }

\* one iteration of while modules: pop the last module and classify its
\* attributes; visited records the modules popped so far
LoadStep ==
    /\ walk.on
    /\ walk.modules # << >>
    /\ LET mod == walk.modules[Len(walk.modules)]
           v == visit(walk.dir[mod],
                      SubSeq(walk.modules, 1, Len(walk.modules) - 1),
                      walk.enums, walk.classes)
       IN walk' = [walk EXCEPT !.modules = v.modules,
                               !.enums = v.enums,
                               !.classes = v.classes,
                               !.visited = Append(walk.visited, mod)]
    /\ UNCHANGED <<host, now, convVars, hostVer, fs, out, last, unit, infer>>

\* the loop runs until the stack is empty
LoadSpec == LoadInit /\ [][LoadStep]_vars /\ WF_vars(LoadStep)

\* no namespace was visited twice
VisitedOnce ==
    \A i, j \in DOMAIN walk.visited : i # j => walk.visited[i] # walk.visited[j]
\* load returned: every namespace reachable through public attributes was
\* visited, and the lists hold the enumerated types and the record types
\* those namespaces hold under public names
Returned ==
    /\ walk.modules = << >>
    /\ Range(walk.visited) = SubNamespaces \cup {"cim"}
    /\ Range(walk.enums) = {"Dir"}
    /\ Range(walk.classes) = {"CIMBar", "CIMFoo"}

\* C14: schema discovery over a strict hierarchy terminates, visits every
\* reachable namespace exactly once and returns every enumerated type and
\* every record type reachable through public attributes; an enumerated
\* type is never listed as a record type.
C14_Discovery ==
    /\ [](walk.on => VisitedOnce /\ Range(walk.enums) \cap Range(walk.classes) = {})
    /\ <>Returned

\* load has walked a hierarchy three levels deep, the enumerated type at
\* its bottom
C14_Witness ==
    /\ walk.on
    /\ walk.modules = << >>
    /\ walk.visited = <<"cim", "CIMA", "CIMB", "CIMEnums">>
    /\ walk.enums = <<"Dir">>

----------------------------------------------------------------------------
(* AttrSpec: one call of build_class_attrs.  The package holds the         *)
(* function twice: _build.py, which check_cimple runs when the conversion  *)
(* module is imported, and the package __init__.py, whose module level     *)
(* runs its own build_cim when the package is imported.                    *)

\* the attribute values a default-constructed host instance can hold: the
\* real numbers and values of other types
InferSamples ==
    { VFloat("nan"), VFloat("inf"), VFloat("-inf"), VFloat("1.5"),
      VFloat("0.0"), VInt(1), VBool(TRUE), VNone, VStr(<<"CIMBar">>) }

AttrInit ==
    /\ host = Malformed
    /\ now = [sec |-> 0, us |-> 0]
    /\ origin = "none"
    /\ src = VNone
    /\ val = VNone
    /\ ops = << >>
    /\ chk = NoCheck
    /\ GenIdle

\* build_class_attrs(attrs, class_names, c) of _build.py
BuildClassAttrs ==
    /\ ~infer.on
    /\ \E x \in InferSamples, y \in InferSamples, c \in {"CIMFoo", "CIMBar"} :
          infer' = [on |-> TRUE, rev |-> "_build", c |-> c,
                    attrs |-> << <<"a", x>>, <<"b", y>> >>,
                    built |-> build_class_attrs(<< <<"a", x>>, <<"b", y>> >>,
                                                Range(unique_classes(host)), c)]
    /\ UNCHANGED <<host, now, convVars, hostVer, fs, out, last, unit, walk>>

\* build_class_attrs(attrs, class_names, c) of the package __init__.py
InitBuildClassAttrs ==
    /\ ~infer.on
    /\ \E x \in InferSamples, y \in InferSamples, c \in {"CIMFoo", "CIMBar"} :
          infer' = [on |-> TRUE, rev |-> "__init__", c |-> c,
                    attrs |-> << <<"a", x>>, <<"b", y>> >>,
                    built |-> init_build_class_attrs(<< <<"a", x>>, <<"b", y>> >>,
                                  Range(unique_classes(host)), c, << >>, << >>)]
    /\ UNCHANGED <<host, now, convVars, hostVer, fs, out, last, unit, walk>>

AttrNext ==
    \/ BuildClassAttrs
    \/ InitBuildClassAttrs

AttrSpec == AttrInit /\ [][AttrNext]_vars

\* C16: type inference of the NaN sentinel.  An attribute whose sample is
\* NaN is declared as an optional real number with default null, never as a
\* real number whose default is NaN and never with an import of nan from
\* the math module; every other real-number sample is declared as a real
\* number with the literal value as default.
C16_NaNInference ==
    infer.on =>
        \A i \in DOMAIN infer.attrs :
            LET sample == infer.attrs[i][2]
                decl == infer.built.class_string[i]
            IN sample.k = "float" =>
                 IF sample.x = "nan"
                 THEN /\ decl.ty = <<"float | None">>
                      /\ decl.dflt = Literal(VNone)
                      /\ "nan" \notin Get(infer.built.imports, "math", {})
                 ELSE /\ decl.ty = <<"float">>
                      /\ decl.dflt = Literal(sample)
====
